---- MODULE Spec2Model ----
(***************************************************************************)
(* The Auto-Save Form (AutoSaveForm, src/unnamed/part_002) as a state      *)
(* machine: the component's React state (form, status, lastSaved), its two *)
(* refs, the browser's table of pending timers, the localStorage entry at  *)
(* STORAGE_KEY and a clock.                                                *)
(*                                                                         *)
(* JavaScript values are records tagged by kind (k), so that undefined,    *)
(* null, strings and objects can meet in one variable.  Timer handles are  *)
(* opaque: the code only passes them to clearTimeout, so a fresh handle is *)
(* any handle that is neither pending nor held by a ref.                   *)
(*                                                                         *)
(* A step is one macrotask of the event loop: an event handler or a timer  *)
(* callback, together with the re-render and the effects React runs for it *)
(* before the next event is handled.  A state setter called on a component *)
(* that is no longer mounted does nothing.                                 *)
(*                                                                         *)
(* The other exercise components of the repository are separate React      *)
(* trees; each has its own variables and its own specification, in which   *)
(* the variables of the others stay as they are after construction.        *)
(***************************************************************************)
EXTENDS Integers, Sequences, FiniteSets, TLC

\* ------------------------------------------------------------- constants

SAVE_DELAY == 2000

FEEDBACK_DELAY == 500

LOAD_DELAY == 2000

\* The clock advances by the smallest delay of the program.
Tick == FEEDBACK_DELAY

\* The clock stops after MaxTicks ticks.
MaxTicks == 6

\* The user acts at most MaxOps times (mount, edit, save, clear, unmount).
MaxOps == 4

Horizon == MaxTicks * Tick

\* ------------------------------------------------------ JavaScript values

Undef == [k |-> "undefined"]

Null == [k |-> "null"]

Num == [k |-> "number"]

Str(s) == [k |-> "string", s |-> s]

\* An object with the properties DOMAIN p.
Obj(p) == [k |-> "object", p |-> p]

NoProps == [n \in {} |-> Undef]

\* v.name, for v neither null nor undefined.
Prop(v, name) ==
  IF v.k = "object" /\ name \in DOMAIN v.p THEN v.p[name] ELSE Undef

\* !v
Falsy(v) == v.k \in {"undefined", "null"} \/ v = Str("")

\* new Date().toISOString() at clock time t.
ToISOString(t) == [k |-> "string", iso |-> t]

\* The text values the two inputs can hold.
Titles == {"", "A"}

Contents == {"", "x"}

FieldValues(name) == IF name = "title" THEN Titles ELSE Contents

MkForm(t, c) == Obj([n \in {"title", "content"} |->
                       IF n = "title" THEN Str(t) ELSE Str(c)])

EmptyForm == MkForm("", "")

\* ------------------------------------------------------------ localStorage

\* getItem's result for a missing key.
Absent == [k |-> "null"]

\* A stored text that is not JSON.
Garbage == [k |-> "text", json |-> FALSE]

\* The stored empty string.
EmptyText == [k |-> "text", json |-> FALSE, empty |-> TRUE]

JSONstringify(v) == [k |-> "text", json |-> TRUE, v |-> v]

\* JSON.parse: the value, or a SyntaxError.
JSONparse(text) ==
  IF text.json THEN [ok |-> TRUE, v |-> text.v] ELSE [ok |-> FALSE]

\* if (saved)
Truthy(text) == text.k = "text" /\ text # EmptyText

\* The timestamp of an entry written before this session.
PriorTimestamp == ToISOString(0 - Tick)

MkData(f, ts) == Obj([n \in {"form", "timestamp"} |->
                        IF n = "form" THEN f ELSE ts])

\* What the key may hold when the first instance mounts.
InitialStores ==
  { Absent, EmptyText, Garbage,
    JSONstringify(Null), JSONstringify(Num), JSONstringify(Obj(NoProps)),
    JSONstringify(MkData(Obj(NoProps), PriorTimestamp)),
    JSONstringify(MkData(Obj([n \in {"title"} |-> Str("A")]), PriorTimestamp)),
    JSONstringify(MkData(EmptyForm, PriorTimestamp)),
    JSONstringify(MkData(MkForm("A", ""), PriorTimestamp)) }

\* ------------------------------------------------------------------ state

VARIABLES
  phase,          \* "init", "mounted", "unmounted", "crashed"
  ops,            \* how many times the user has acted
  form,           \* useState: the Document
  status,         \* useState: the SaveStatus
  lastSaved,      \* useState: the LastSavedTimestamp
  saveTimerRef,   \* useRef: handle of the debounce timer (0: null)
  statusTimerRef, \* useRef: handle of the visual-feedback timer (0: null)
  cleanup,        \* whether the auto-save effect last returned a cleanup
  timers,         \* the pending timers, in the order they were set
  store,          \* localStorage[STORAGE_KEY]
  now,            \* the clock, in ms
  h,              \* history: what the last step did
  cart,           \* Shopping Cart, useState: the items, in order
  cop,            \* Shopping Cart, history: what the last handler did
  searchTerm,     \* DebouncedSearch, useState
  results,        \* DebouncedSearch, useState
  searching,      \* DebouncedSearch, useState
  searchTimerRef, \* DebouncedSearch, useRef: handle of the timer (0: null)
  searchTimers,   \* DebouncedSearch: the pending timers
  searchRequests, \* DebouncedSearch: the requests in flight
  sh,             \* DebouncedSearch, history
  userId,         \* DataFetching, prop
  fetchedData,    \* DataFetching, useState `data`
  loading,        \* DataFetching, useState
  error,          \* DataFetching, useState
  fetchMounted,   \* DataFetching: whether the component is mounted
  effectRun,      \* DataFetching: the number of the effect's latest run
  fetchRequests,  \* DataFetching: the fetchData calls not yet finished
  fh              \* DataFetching, history

vars == <<phase, ops, form, status, lastSaved, saveTimerRef, statusTimerRef,
          cleanup, timers, store, now, h, cart, cop, searchTerm, results,
          searching, searchTimerRef, searchTimers, searchRequests, sh,
          userId, fetchedData, loading, error, fetchMounted, effectRun,
          fetchRequests, fh>>

\* The state of the Auto-Save Form.
autoSave == <<phase, ops, form, status, lastSaved, saveTimerRef,
              statusTimerRef, cleanup, timers, store, now, h>>

\* The state of the Shopping Cart.
cartVars == <<cart, cop>>

\* The state of DebouncedSearch.
searchVars == <<searchTerm, results, searching, searchTimerRef, searchTimers,
                searchRequests, sh>>

\* The state of DataFetching.
fetchVars == <<userId, fetchedData, loading, error, fetchMounted, effectRun,
               fetchRequests, fh>>

\* The state of the other components, which the Auto-Save Form leaves alone.
other == <<cartVars, searchVars, fetchVars>>

\* The component's part of the state, as one record, during a step.  `mine`
\* says whether the code that runs belongs to the current instance (a timer
\* of an instance unmounted earlier is an orphan), `live` whether its state
\* setters still act; `wrote`, `wdoc` and `wts` record the outcome of
\* setItem and the document and timestamp it was given, `rm` the outcome
\* of removeItem.
Cur(orphan) ==
  [form |-> form, status |-> status, lastSaved |-> lastSaved,
   saveTimerRef |-> saveTimerRef, statusTimerRef |-> statusTimerRef,
   cleanup |-> cleanup, timers |-> timers, store |-> store,
   mine |-> ~orphan, live |-> (~orphan /\ phase = "mounted"),
   wrote |-> "none", wdoc |-> Undef, wts |-> Undef, rm |-> "none"]

Commit(s) ==
  /\ form' = s.form
  /\ status' = s.status
  /\ lastSaved' = s.lastSaved
  /\ saveTimerRef' = s.saveTimerRef
  /\ statusTimerRef' = s.statusTimerRef
  /\ cleanup' = s.cleanup
  /\ timers' = s.timers
  /\ store' = s.store

\* ----------------------------------------------------------------- timers

TimerIds(tm) == {tm[i].id : i \in 1..Len(tm)}

\* A handle that is neither pending nor held by a ref.
FreshId(s) ==
  LET used == TimerIds(s.timers) \cup {s.saveTimerRef, s.statusTimerRef}
  IN CHOOSE i \in 1..(Cardinality(used) + 1) :
       i \notin used /\ \A j \in 1..(i - 1) : j \in used

SetTimeout(tm, id, kind, delay, f, orphan) ==
  Append(tm, [id |-> id, kind |-> kind, left |-> delay, form |-> f,
              orphan |-> orphan])

ClearTimeout(tm, id) == SelectSeq(tm, LAMBDA t : t.id # id)

\* The pending timers once their instance is gone.
Orphaned(tm) == [i \in 1..Len(tm) |-> [tm[i] EXCEPT !.orphan = TRUE]]

\* ------------------------------------------------------------ the component

\* !form.title && !form.content
IsEmptyForm(f) == Falsy(Prop(f, "title")) /\ Falsy(Prop(f, "content"))

\* Rendering reads form.title, and FormPreview reads form.content.length
\* once the form is not empty: a TypeError there escapes the component.
RenderThrows(f) ==
  \/ f.k \in {"undefined", "null"}
  \/ ~IsEmptyForm(f) /\ Prop(f, "content").k # "string"

\* The try block of the load effect runs to its end: the entry is there,
\* parses, and reading data.form does not throw.
Loads(text) ==
  /\ Truthy(text)
  /\ JSONparse(text).ok
  /\ JSONparse(text).v.k \notin {"undefined", "null"}

\* LoadEffect with setForm(JSON.parse(saved)): the whole record, not its
\* form, becomes the Document.
LoadEffectWholeRecord(s) ==
  IF Loads(s.store)
  THEN LET data == JSONparse(s.store).v
       IN [s EXCEPT !.form = data,
                    !.lastSaved = Prop(data, "timestamp"),
                    !.status = "saved",
                    !.timers = SetTimeout(@, FreshId(s), "load", LOAD_DELAY,
                                          Undef, FALSE)]
  ELSE s

\* The load effect; everything it throws is caught.
LoadEffect(s) ==
  IF Loads(s.store)
  THEN LET data == JSONparse(s.store).v
           id == FreshId(s)
       IN [s EXCEPT !.form = Prop(data, "form"),
                    !.lastSaved = Prop(data, "timestamp"),
                    !.status = "saved",
                    !.timers = SetTimeout(@, id, "load", LOAD_DELAY, Undef,
                                          FALSE)]
  ELSE s

\* AutoSaveEffect without its clearTimeout calls: a new timer is set and
\* the one before is left pending.
AutoSaveEffectNoCancel(s) ==
  IF IsEmptyForm(s.form)
  THEN [s EXCEPT !.cleanup = FALSE]
  ELSE [s EXCEPT !.status = "unsaved",
                 !.timers = SetTimeout(@, FreshId(s), "save", SAVE_DELAY,
                                       s.form, FALSE),
                 !.saveTimerRef = FreshId(s),
                 !.cleanup = TRUE]

\* AutoSaveEffect with no debounce: it writes on every change of a
\* non-empty form.
AutoSaveEffectSavesAtOnce(s) ==
  LET ts == ToISOString(now)
      s1 == [s EXCEPT !.timers = ClearTimeout(@, s.statusTimerRef)]
      id == FreshId(s1)
  IN IF IsEmptyForm(s.form)
     THEN s
     ELSE [s1 EXCEPT !.status = "saving",
                     !.store = JSONstringify(MkData(s.form, ts)),
                     !.lastSaved = ts,
                     !.timers = SetTimeout(@, id, "status", FEEDBACK_DELAY,
                                           Undef, FALSE),
                     !.statusTimerRef = id,
                     !.wrote = "ok",
                     !.wdoc = s.form,
                     !.wts = ts]

\* AutoSaveEffect without its guard against the empty form.
AutoSaveEffectNoGuard(s) ==
  LET s1 == [s EXCEPT !.timers = ClearTimeout(@, s.saveTimerRef)]
      id == FreshId(s1)
  IN [s1 EXCEPT !.status = "unsaved",
                !.timers = SetTimeout(@, id, "save", SAVE_DELAY, s.form,
                                      FALSE),
                !.saveTimerRef = id,
                !.cleanup = TRUE]

\* AutoSaveEffect as a throttle: while a debounce timer is pending it is
\* left to run, with the saveToLocalStorage of the render that set it.
AutoSaveEffectKeepsTimer(s) ==
  LET pending == \E i \in 1..Len(s.timers) : s.timers[i].id = s.saveTimerRef
      id == FreshId(s)
  IN IF IsEmptyForm(s.form)
     THEN s
     ELSE IF pending
          THEN [s EXCEPT !.status = "unsaved"]
          ELSE [s EXCEPT !.status = "unsaved",
                         !.timers = SetTimeout(@, id, "save", SAVE_DELAY,
                                               s.form, FALSE),
                         !.saveTimerRef = id,
                         !.cleanup = TRUE]

\* The auto-save effect after a render with a new form object: the cleanup
\* of its previous run first, then the effect itself.
AutoSaveEffect(s) ==
  LET s0 == IF s.cleanup
            THEN [s EXCEPT !.timers = ClearTimeout(@, s.saveTimerRef)]
            ELSE s
      s1 == [s0 EXCEPT !.timers = ClearTimeout(@, s0.saveTimerRef)]
      id == FreshId(s1)
  IN IF IsEmptyForm(s0.form)
     THEN [s0 EXCEPT !.cleanup = FALSE]
     ELSE [s1 EXCEPT !.status = "unsaved",
                     !.timers = SetTimeout(@, id, "save", SAVE_DELAY, s0.form,
                                           FALSE),
                     !.saveTimerRef = id,
                     !.cleanup = TRUE]

\* saveToLocalStorage with setLastSaved ahead of setItem: the timestamp is
\* set even when setItem throws.
SaveToLocalStorageEarlyTimestamp(s, f, ok, t) ==
  LET ts == ToISOString(t)
      s1 == IF s.mine
            THEN [s EXCEPT !.timers = ClearTimeout(@, s.statusTimerRef)]
            ELSE s
      id == FreshId(s1)
  IN IF ok
     THEN [s1 EXCEPT !.status = IF s.live THEN "saving" ELSE @,
                     !.store = JSONstringify(MkData(f, ts)),
                     !.lastSaved = IF s.live THEN ts ELSE @,
                     !.timers = SetTimeout(@, id, "status", FEEDBACK_DELAY,
                                           Undef, ~s.mine),
                     !.statusTimerRef = IF s.mine THEN id ELSE @,
                     !.wrote = "ok",
                     !.wdoc = f,
                     !.wts = ts]
     ELSE [s EXCEPT !.status = IF s.live THEN "error" ELSE @,
                    !.lastSaved = IF s.live THEN ts ELSE @,
                    !.wrote = "failed",
                    !.wdoc = f,
                    !.wts = ts]

\* saveToLocalStorage with a catch block that also calls
\* setLastSaved(null).
SaveToLocalStorageDropsTimestamp(s, f, ok, t) ==
  LET ts == ToISOString(t)
      s1 == IF s.mine
            THEN [s EXCEPT !.timers = ClearTimeout(@, s.statusTimerRef)]
            ELSE s
      id == FreshId(s1)
  IN IF ok
     THEN [s1 EXCEPT !.status = IF s.live THEN "saving" ELSE @,
                     !.store = JSONstringify(MkData(f, ts)),
                     !.lastSaved = IF s.live THEN ts ELSE @,
                     !.timers = SetTimeout(@, id, "status", FEEDBACK_DELAY,
                                           Undef, ~s.mine),
                     !.statusTimerRef = IF s.mine THEN id ELSE @,
                     !.wrote = "ok",
                     !.wdoc = f,
                     !.wts = ts]
     ELSE [s EXCEPT !.status = IF s.live THEN "error" ELSE @,
                    !.lastSaved = IF s.live THEN Null ELSE @,
                    !.wrote = "failed",
                    !.wdoc = f,
                    !.wts = ts]

\* saveToLocalStorage with a catch block that tries again: it sets the
\* debounce timer anew when setItem throws.
SaveToLocalStorageRetry(s, f, ok, t) ==
  LET ts == ToISOString(t)
      s1 == IF s.mine
            THEN [s EXCEPT !.timers = ClearTimeout(@, s.statusTimerRef)]
            ELSE s
      id == FreshId(s1)
      rid == FreshId(s)
  IN IF ok
     THEN [s1 EXCEPT !.status = IF s.live THEN "saving" ELSE @,
                     !.store = JSONstringify(MkData(f, ts)),
                     !.lastSaved = IF s.live THEN ts ELSE @,
                     !.timers = SetTimeout(@, id, "status", FEEDBACK_DELAY,
                                           Undef, ~s.mine),
                     !.statusTimerRef = IF s.mine THEN id ELSE @,
                     !.wrote = "ok",
                     !.wdoc = f,
                     !.wts = ts]
     ELSE [s EXCEPT !.status = IF s.live THEN "error" ELSE @,
                    !.timers = SetTimeout(@, rid, "save", SAVE_DELAY, f,
                                          ~s.mine),
                    !.saveTimerRef = IF s.mine THEN rid ELSE @,
                    !.wrote = "failed",
                    !.wdoc = f,
                    !.wts = ts]

\* saveToLocalStorage as defined by the render that saw form f, at clock
\* time t; ok says whether setItem returns or throws.
SaveToLocalStorage(s, f, ok, t) ==
  LET ts == ToISOString(t)
      s1 == IF s.mine
            THEN [s EXCEPT !.timers = ClearTimeout(@, s.statusTimerRef)]
            ELSE s
      id == FreshId(s1)
  IN IF ok
     THEN [s1 EXCEPT !.status = IF s.live THEN "saving" ELSE @,
                     !.store = JSONstringify(MkData(f, ts)),
                     !.lastSaved = IF s.live THEN ts ELSE @,
                     !.timers = SetTimeout(@, id, "status", FEEDBACK_DELAY,
                                           Undef, ~s.mine),
                     !.statusTimerRef = IF s.mine THEN id ELSE @,
                     !.wrote = "ok",
                     !.wdoc = f,
                     !.wts = ts]
     ELSE [s EXCEPT !.status = IF s.live THEN "error" ELSE @,
                    !.wrote = "failed",
                    !.wdoc = f,
                    !.wts = ts]

\* { ...prev, [name]: value }; spreading a value that is no object adds
\* no property.
HandleChange(prev, name, value) ==
  LET own == IF prev.k = "object" THEN prev.p ELSE NoProps
  IN Obj([n \in DOMAIN own \cup {name} |->
            IF n = name THEN Str(value) ELSE own[n]])

\* Unmount with no cleanup returned by the auto-save effect: the debounce
\* timer outlives the instance.
UnmountNoCleanup(s) == [s EXCEPT !.timers = Orphaned(@), !.cleanup = FALSE]

\* Unmounting runs the cleanup the auto-save effect last returned; the
\* timers still pending have lost their instance.
Unmount(s) ==
  LET s1 == IF s.cleanup
            THEN [s EXCEPT !.timers = ClearTimeout(@, s.saveTimerRef),
                           !.cleanup = FALSE]
            ELSE s
  IN [s1 EXCEPT !.timers = Orphaned(@)]

\* ---------------------------------------------------------------- history

UserOps == {"mount", "edit", "manualSave", "clear", "teardown"}

\* A debounce timer of the current instance is pending.
SavePending ==
  \E i \in 1..Len(timers) : timers[i].kind = "save" /\ ~timers[i].orphan

NoSave == [done |-> FALSE]

NoTeardown == [done |-> FALSE]

NoManual == [done |-> FALSE]

\* DataFetching: the userId the component is first rendered with.
FirstUser == 1

\* DataFetching: a call of fetchData by run number id of the effect, for
\* user u, suspended at await fetch; `cancelled` is the variable of that
\* run's closure.
FetchData(id, u) ==
  [id |-> id, user |-> u, stage |-> "fetch", cancelled |-> FALSE]

\* DataFetching: nothing has happened since the first render.
NoFetchOp == [op |-> "none", id |-> 0, user |-> 0, outcome |-> "none",
              changes |-> 0]

\* DebouncedSearch: nothing has happened yet.
NoSearchOp == [op |-> "none", changes |-> 0, failed |-> FALSE]

\* Shopping Cart: no handler has run yet.
NoCartOp == [op |-> "none", id |-> 0, run |-> 0]

\* What the step `op` did, after it left the component as s:
\*   wrote, wdoc  whether it called setItem ("ok", "failed") and with which
\*                document;
\*   live         whether the code that ran belonged to a mounted instance;
\*   dw           how many times the debounce callback has run since the
\*                user last acted;
\*   burst        how many edits in a row have each come while the debounce
\*                timer of the one before was pending;
\*   saved        the document and timestamp of the last setItem that
\*                succeeded, while the entry it wrote is in the store;
\*   td           when the current instance was unmounted, and whether its
\*                debounce timer was pending then;
\*   rm           whether it called removeItem ("ok", "failed");
\*   e1           the user's last edit, clear, mount or unmount was an edit
\*                that found the status idle and left a non-empty document,
\*                and no setItem has thrown since;
\*   cl           the user has confirmed a clear and has since neither
\*                made a non-empty edit, nor saved manually, nor unmounted;
\*   ms           when the user last saved manually with no edit since, and
\*                whether a debounce timer was pending then;
\*   lw           the outcome of the last setItem call since the user's last
\*                edit.
Hist(op, s) ==
  [op |-> op, wrote |-> s.wrote, wdoc |-> s.wdoc, live |-> s.live,
   dw |-> IF op = "fireSave" THEN h.dw + 1
          ELSE IF op \in UserOps THEN 0 ELSE h.dw,
   burst |-> IF op = "edit" THEN (IF SavePending THEN h.burst + 1 ELSE 1)
             ELSE IF op \in UserOps THEN 0 ELSE h.burst,
   saved |-> IF s.wrote = "ok"
             THEN [done |-> TRUE, doc |-> s.wdoc, ts |-> s.wts]
             ELSE IF s.store = Absent THEN NoSave ELSE h.saved,
   td |-> IF op = "teardown"
          THEN [done |-> TRUE, at |-> now, save |-> SavePending]
          ELSE IF op = "mount" THEN NoTeardown ELSE h.td,
   rm |-> s.rm,
   e1 |-> IF op = "edit" THEN status = "idle" /\ ~IsEmptyForm(s.form)
          ELSE IF op \in {"clear", "teardown", "mount"} THEN FALSE
          ELSE IF s.wrote = "failed" THEN FALSE ELSE h.e1,
   cl |-> IF op = "clear" THEN TRUE
          ELSE IF op = "edit" THEN h.cl /\ IsEmptyForm(s.form)
          ELSE IF op \in {"manualSave", "teardown", "mount"} THEN FALSE
          ELSE h.cl,
   ms |-> IF op = "manualSave"
          THEN [done |-> TRUE, at |-> now, save |-> SavePending]
          ELSE IF op \in {"edit", "mount"} THEN NoManual ELSE h.ms,
   lw |-> IF s.wrote # "none" THEN s.wrote
          ELSE IF op \in {"edit", "mount"} THEN "none" ELSE h.lw]

\* ------------------------------------------------------------------ steps

Init ==
  /\ phase = "init"
  /\ ops = 0
  /\ form = EmptyForm
  /\ status = "idle"
  /\ lastSaved = Null
  /\ saveTimerRef = 0
  /\ statusTimerRef = 0
  /\ cleanup = FALSE
  /\ timers = <<>>
  /\ store \in InitialStores
  /\ now = 0
  /\ h = [op |-> "none", wrote |-> "none", wdoc |-> Undef, live |-> FALSE,
          dw |-> 0, burst |-> 0, saved |-> NoSave, td |-> NoTeardown,
          rm |-> "none", e1 |-> FALSE, cl |-> FALSE, ms |-> NoManual,
          lw |-> "none"]
  /\ cart = <<>>
  /\ cop = NoCartOp
  /\ searchTerm = ""
  /\ results = <<>>
  /\ searching = FALSE
  /\ searchTimerRef = 0
  /\ searchTimers = <<>>
  /\ searchRequests = <<>>
  /\ sh = NoSearchOp
  /\ userId = FirstUser
  /\ fetchedData = Null
  /\ loading = TRUE
  /\ error = Null
  /\ fetchMounted = TRUE
  /\ effectRun = 1
  /\ fetchRequests = <<FetchData(1, FirstUser)>>
  /\ fh = NoFetchOp

\* A new instance mounts: the first render, the load effect, the auto-save
\* effect (the form of the first render is empty), and, when the load effect
\* set the state, the second render and the auto-save effect for it.
Mount ==
  /\ phase \in {"init", "unmounted"}
  /\ ops < MaxOps
  /\ LET s0 == [Cur(FALSE) EXCEPT !.form = EmptyForm,
                                  !.status = "idle",
                                  !.lastSaved = Null,
                                  !.saveTimerRef = 0,
                                  !.statusTimerRef = 0,
                                  !.cleanup = FALSE,
                                  !.live = TRUE]
         s1 == LoadEffect(s0)
     IN IF Loads(store) /\ RenderThrows(s1.form)
        THEN /\ phase' = "crashed"
             /\ Commit(Unmount(s1))
             /\ h' = Hist("mount", s1)
        ELSE /\ phase' = "mounted"
             /\ Commit(IF Loads(store) THEN AutoSaveEffect(s1) ELSE s1)
             /\ h' = Hist("mount", s1)
  /\ ops' = ops + 1
  /\ UNCHANGED now
  /\ UNCHANGED other

\* What an input shows for the value v it is given: nothing for undefined.
Displayed(v) == IF v.k = "string" THEN v ELSE Str("")

\* handleChange for one input event (the event comes only when the text
\* of the input changes), the render and the auto-save effect.
Edit ==
  /\ phase = "mounted"
  /\ ops < MaxOps
  /\ \E name \in {"title", "content"} :
       \E value \in FieldValues(name) :
         /\ Displayed(Prop(form, name)) # Str(value)
         /\ LET s1 == [Cur(FALSE) EXCEPT
                         !.form = HandleChange(form, name, value)]
            IN IF RenderThrows(s1.form)
               THEN /\ phase' = "crashed"
                    /\ Commit(Unmount(s1))
                    /\ h' = Hist("edit", s1)
               ELSE /\ phase' = phase
                    /\ Commit(AutoSaveEffect(s1))
                    /\ h' = Hist("edit", s1)
  /\ ops' = ops + 1
  /\ UNCHANGED now
  /\ UNCHANGED other

\* handleManualSave without its clearTimeout: the debounce timer stays
\* pending.
ManualSaveNoCancel ==
  /\ phase = "mounted"
  /\ ops < MaxOps
  /\ \E ok \in BOOLEAN :
       LET s2 == SaveToLocalStorage(Cur(FALSE), form, ok, now)
       IN /\ Commit(s2)
          /\ h' = Hist("manualSave", s2)
  /\ ops' = ops + 1
  /\ UNCHANGED <<phase, now>>
  /\ UNCHANGED other

\* handleManualSave
ManualSave ==
  /\ phase = "mounted"
  /\ ops < MaxOps
  /\ \E ok \in BOOLEAN :
       LET s1 == [Cur(FALSE) EXCEPT !.timers = ClearTimeout(@, saveTimerRef)]
           s2 == SaveToLocalStorage(s1, form, ok, now)
       IN /\ Commit(s2)
          /\ h' = Hist("manualSave", s2)
  /\ ops' = ops + 1
  /\ UNCHANGED <<phase, now>>
  /\ UNCHANGED other

\* handleClear without setLastSaved(null).
ClearKeepsTimestamp ==
  /\ phase = "mounted"
  /\ ops < MaxOps
  /\ \E removeOk \in BOOLEAN :
       LET s1 == [Cur(FALSE) EXCEPT !.form = EmptyForm,
                                    !.status = "idle",
                                    !.store = IF removeOk THEN Absent ELSE @,
                                    !.rm = IF removeOk THEN "ok" ELSE "failed"]
           s2 == AutoSaveEffect(s1)
       IN /\ Commit(s2)
          /\ h' = Hist("clear", s2)
  /\ ops' = ops + 1
  /\ UNCHANGED <<phase, now>>
  /\ UNCHANGED other

\* handleClear with removeItem called first and outside the try block: when
\* it throws, the handler ends there and nothing is reset.
ClearRemoveFirst ==
  /\ phase = "mounted"
  /\ ops < MaxOps
  /\ \E removeOk \in BOOLEAN :
       LET s0 == [Cur(FALSE) EXCEPT !.rm = IF removeOk THEN "ok" ELSE "failed"]
           s1 == [s0 EXCEPT !.form = EmptyForm,
                            !.lastSaved = Null,
                            !.status = "idle",
                            !.store = Absent]
           s2 == IF removeOk THEN AutoSaveEffect(s1) ELSE s0
       IN /\ Commit(s2)
          /\ h' = Hist("clear", s2)
  /\ ops' = ops + 1
  /\ UNCHANGED <<phase, now>>
  /\ UNCHANGED other

\* handleClear, confirmed (declined, it does nothing); removeOk says
\* whether removeItem returns or throws.  The new form object re-runs the
\* auto-save effect.
Clear ==
  /\ phase = "mounted"
  /\ ops < MaxOps
  /\ \E removeOk \in BOOLEAN :
       LET s1 == [Cur(FALSE) EXCEPT !.form = EmptyForm,
                                    !.lastSaved = Null,
                                    !.status = "idle",
                                    !.store = IF removeOk THEN Absent ELSE @,
                                    !.rm = IF removeOk THEN "ok" ELSE "failed"]
           s2 == AutoSaveEffect(s1)
       IN /\ Commit(s2)
          /\ h' = Hist("clear", s2)
  /\ ops' = ops + 1
  /\ UNCHANGED <<phase, now>>
  /\ UNCHANGED other

\* The component unmounts.
Teardown ==
  /\ phase = "mounted"
  /\ ops < MaxOps
  /\ phase' = "unmounted"
  /\ Commit(Unmount(Cur(FALSE)))
  /\ h' = Hist("teardown", Cur(FALSE))
  /\ ops' = ops + 1
  /\ UNCHANGED now
  /\ UNCHANGED other

\* The timer that runs next: the first set among those that are due.
DueIndex ==
  IF \E i \in 1..Len(timers) : timers[i].left = 0
  THEN CHOOSE i \in 1..Len(timers) :
         /\ timers[i].left = 0
         /\ \A j \in 1..(i - 1) : timers[j].left # 0
  ELSE 0

Without(tm, i) ==
  [j \in 1..(Len(tm) - 1) |-> IF j < i THEN tm[j] ELSE tm[j + 1]]

\* The debounce timer's callback.
FireSave ==
  /\ DueIndex # 0
  /\ timers[DueIndex].kind = "save"
  /\ \E ok \in BOOLEAN :
       LET t == timers[DueIndex]
           s1 == [Cur(t.orphan) EXCEPT !.timers = Without(timers, DueIndex)]
           s2 == SaveToLocalStorage(s1, t.form, ok, now)
       IN /\ Commit(s2)
          /\ h' = Hist("fireSave", s2)
  /\ UNCHANGED <<phase, ops, now>>
  /\ UNCHANGED other

\* The visual-feedback timer's callback.
FireStatus ==
  /\ DueIndex # 0
  /\ timers[DueIndex].kind = "status"
  /\ LET t == timers[DueIndex]
         s1 == [Cur(t.orphan) EXCEPT !.timers = Without(timers, DueIndex)]
         s2 == [s1 EXCEPT !.status = IF s1.live THEN "saved" ELSE @]
     IN /\ Commit(s2)
        /\ h' = Hist("fireStatus", s2)
  /\ UNCHANGED <<phase, ops, now>>
  /\ UNCHANGED other

\* The callback of the timer the load effect set.
FireLoad ==
  /\ DueIndex # 0
  /\ timers[DueIndex].kind = "load"
  /\ LET t == timers[DueIndex]
         s1 == [Cur(t.orphan) EXCEPT !.timers = Without(timers, DueIndex)]
         s2 == [s1 EXCEPT !.status = IF s1.live THEN "saved" ELSE @]
     IN /\ Commit(s2)
        /\ h' = Hist("fireLoad", s2)
  /\ UNCHANGED <<phase, ops, now>>
  /\ UNCHANGED other

\* Time passes, once every due timer has run.
Advance ==
  /\ phase # "init"
  /\ DueIndex = 0
  /\ now < Horizon
  /\ now' = now + Tick
  /\ timers' = [i \in 1..Len(timers) |->
                  [timers[i] EXCEPT !.left = @ - Tick]]
  /\ h' = Hist("advance", Cur(FALSE))
  /\ UNCHANGED <<phase, ops, form, status, lastSaved, saveTimerRef,
                 statusTimerRef, cleanup, store>>
  /\ UNCHANGED other

Next ==
  \/ Mount
  \/ Edit
  \/ ManualSave
  \/ Clear
  \/ Teardown
  \/ FireSave
  \/ FireStatus
  \/ FireLoad
  \/ Advance

Spec == Init /\ [][Next]_vars

\* Timers that are due run, and time passes.
FairSpec ==
  /\ Spec
  /\ WF_vars(FireSave)
  /\ WF_vars(FireStatus)
  /\ WF_vars(FireLoad)
  /\ WF_vars(Advance)

\* ----------------------------------------------------------- Shopping Cart
\* App of src/practice/day2/README.md.  An item of the cart is the product
\* it was made from (id, name, price) with a quantity; the model keeps the
\* id and the quantity.  A step is one click or input event with the render
\* after it, so every handler runs with the cart of the latest render.

ProductIds == {1, 2, 3}

\* The quantity buttons and inputs raise no quantity above MaxQty.
MaxQty == 3

\* The text typed into a quantity input has at most MaxText characters.
MaxText == 2

\* The characters a number input lets through.
Chars == {"0", "1", "2", "-", ".", "e"}

Texts == UNION {[1..n -> Chars] : n \in 0..MaxText}

Digits == <<"0", "1", "2", "3", "4", "5", "6", "7", "8", "9">>

IsDigit(c) == \E d \in 1..Len(Digits) : Digits[d] = c

DigitVal(c) == (CHOOSE d \in 1..Len(Digits) : Digits[d] = c) - 1

NaN == [nan |-> TRUE, n |-> 0]

Number(n) == [nan |-> FALSE, n |-> n]

\* String(n), for an integer n.
RECURSIVE ToText(_)
ToText(n) ==
  IF n < 0 THEN <<"-">> \o ToText(0 - n)
  ELSE IF n < 10 THEN <<Digits[n + 1]>>
  ELSE ToText(n \div 10) \o <<Digits[(n % 10) + 1]>>

\* How many digits t starts with.
RECURSIVE LeadingDigits(_)
LeadingDigits(t) ==
  IF t # <<>> /\ IsDigit(t[1]) THEN 1 + LeadingDigits(Tail(t)) ELSE 0

\* The value of a sequence of digits.
RECURSIVE DigitsValue(_)
DigitsValue(t) ==
  IF t = <<>> THEN 0
  ELSE 10 * DigitsValue(SubSeq(t, 1, Len(t) - 1)) + DigitVal(t[Len(t)])

\* parseInt(t) for a text t without white space: an optional sign, then the
\* digits up to the first character that is none; NaN when there is no
\* digit.
ParseInt(t) ==
  LET signed == t # <<>> /\ t[1] \in {"-", "+"}
      rest == IF signed THEN Tail(t) ELSE t
      k == LeadingDigits(rest)
      v == DigitsValue(SubSeq(rest, 1, k))
  IN IF k = 0 THEN NaN
     ELSE Number(IF signed /\ t[1] = "-" THEN 0 - v ELSE v)

\* cart.find((i) => i.id === id)
HasItem(c, id) == \E i \in 1..Len(c) : c[i].id = id

\* The quantity of the item with this id, 0 when it is not in the cart.
Quantity(c, id) ==
  IF HasItem(c, id)
  THEN c[CHOOSE i \in 1..Len(c) : c[i].id = id].quantity
  ELSE 0

\* addItem that never looks for the product in the cart.
addItemAlwaysAppends(c, id) == Append(c, [id |-> id, quantity |-> 1])

addItem(c, id) ==
  IF HasItem(c, id)
  THEN [i \in 1..Len(c) |->
          IF c[i].id = id THEN [c[i] EXCEPT !.quantity = @ + 1] ELSE c[i]]
  ELSE Append(c, [id |-> id, quantity |-> 1])

\* decrementItem without its filter.
decrementItemNoFilter(c, id) ==
  [i \in 1..Len(c) |->
     IF c[i].id = id THEN [c[i] EXCEPT !.quantity = @ - 1] ELSE c[i]]

decrementItem(c, id) ==
  SelectSeq([i \in 1..Len(c) |->
               IF c[i].id = id THEN [c[i] EXCEPT !.quantity = @ - 1]
                               ELSE c[i]],
            LAMBDA item : item.quantity > 0)

removeItem(c, id) == SelectSeq(c, LAMBDA item : item.id # id)

updateQuantity(c, id, newQuantity) ==
  LET quantity == ParseInt(newQuantity)
  IN IF quantity.nan \/ quantity.n <= 0
     THEN removeItem(c, id)
     ELSE [i \in 1..Len(c) |->
             IF c[i].id = id THEN [c[i] EXCEPT !.quantity = quantity.n]
                             ELSE c[i]]

clearCart(c) == <<>>

\* What the handler `op` did for product id: run counts the addItem calls
\* made in a row for one product since it was not in the cart.
CartHist(op, id) ==
  [op |-> op, id |-> id,
   run |-> IF op # "addItem" THEN 0
           ELSE IF ~HasItem(cart, id) THEN 1
           ELSE IF cop.op = "addItem" /\ cop.id = id /\ cop.run > 0
                THEN cop.run + 1
                ELSE 0]

\* The "Add to Cart" button of a product.
AddToCart ==
  /\ \E id \in ProductIds :
       /\ Quantity(cart, id) < MaxQty
       /\ cart' = addItem(cart, id)
       /\ cop' = CartHist("addItem", id)
  /\ UNCHANGED <<autoSave, searchVars, fetchVars>>

\* The "-" button of an item of the cart, which is disabled while the
\* quantity of the item is at most 1.
Decrement ==
  /\ \E i \in 1..Len(cart) :
       /\ ~(cart[i].quantity <= 1)
       /\ cart' = decrementItem(cart, cart[i].id)
       /\ cop' = CartHist("decrementItem", cart[i].id)
  /\ UNCHANGED <<autoSave, searchVars, fetchVars>>

\* The "Remove" button of an item of the cart.
Remove ==
  /\ \E i \in 1..Len(cart) :
       /\ cart' = removeItem(cart, cart[i].id)
       /\ cop' = CartHist("removeItem", cart[i].id)
  /\ UNCHANGED <<autoSave, searchVars, fetchVars>>

\* Typing into the quantity input of an item of the cart.
TypeQuantity ==
  /\ \E i \in 1..Len(cart) :
       \E text \in Texts :
         /\ ParseInt(text).n <= MaxQty
         /\ cart' = updateQuantity(cart, cart[i].id, text)
         /\ cop' = CartHist("updateQuantity", cart[i].id)
  /\ UNCHANGED <<autoSave, searchVars, fetchVars>>

\* The "+" button of an item of the cart: updateQuantity with the number
\* item.quantity + 1, which parseInt turns into a string first.
Increment ==
  /\ \E i \in 1..Len(cart) :
       /\ cart[i].quantity < MaxQty
       /\ cart' = updateQuantity(cart, cart[i].id,
                                 ToText(cart[i].quantity + 1))
       /\ cop' = CartHist("updateQuantity", cart[i].id)
  /\ UNCHANGED <<autoSave, searchVars, fetchVars>>

\* The "Clear Cart" button, shown while the cart has items.
ClearCart ==
  /\ cart # <<>>
  /\ cart' = clearCart(cart)
  /\ cop' = CartHist("clearCart", 0)
  /\ UNCHANGED <<autoSave, searchVars, fetchVars>>

CartInit == Init /\ store = Absent

CartNext ==
  \/ AddToCart
  \/ Decrement
  \/ Remove
  \/ TypeQuantity
  \/ Increment
  \/ ClearCart

CartSpec == CartInit /\ [][CartNext]_vars

\* --------------------------------------------------------- DebouncedSearch
\* DebouncedSearch of src/unnamed/part_000, while it is mounted.  A timer
\* that is pending may run at any moment and a request in flight may make
\* its next move at any moment: no delay of the network is assumed.

SEARCH_DELAY == 500

\* The texts the user types into the search box.
Terms == {"", "a", "ab"}

\* The user changes the search term at most MaxChanges times.
MaxChanges == 3

\* What /api/search?q=term answers: a list of hits for that term.
SearchData(term) == <<[id |-> term]>>

\* A handle that is neither pending nor held by the ref.
FreshSearchId ==
  LET used == TimerIds(searchTimers) \cup {searchTimerRef}
  IN CHOOSE i \in 1..(Cardinality(used) + 1) :
       i \notin used /\ \A j \in 1..(i - 1) : j \in used

SearchHist(op, failed) ==
  [op |-> op,
   changes |-> IF op = "change" THEN sh.changes + 1 ELSE sh.changes,
   failed |-> sh.failed \/ failed]

\* The input's onChange, the render and the effect for the new term: the
\* cleanup of the effect's previous run and the effect itself both clear
\* the timer of the ref.
ChangeTerm ==
  /\ sh.changes < MaxChanges
  /\ \E term \in Terms :
       /\ term # searchTerm
       /\ searchTerm' = term
       /\ LET tm == ClearTimeout(searchTimers, searchTimerRef)
          IN IF term = ""
             THEN /\ results' = <<>>
                  /\ searchTimers' = tm
                  /\ UNCHANGED <<searching, searchTimerRef>>
             ELSE /\ searching' = TRUE
                  /\ searchTimers' =
                       Append(tm, [id |-> FreshSearchId, term |-> term,
                                   left |-> SEARCH_DELAY])
                  /\ searchTimerRef' = FreshSearchId
                  /\ UNCHANGED results
  /\ sh' = SearchHist("change", FALSE)
  /\ UNCHANGED <<searchRequests, autoSave, cartVars, fetchVars>>

\* The timer's callback up to its first await: fetch for the term of the
\* render that set the timer.
FireSearch ==
  /\ \E i \in 1..Len(searchTimers) :
       /\ searchTimers' = Without(searchTimers, i)
       /\ searchRequests' =
            Append(searchRequests,
                   [term |-> searchTimers[i].term, stage |-> "fetch"])
  /\ sh' = SearchHist("fire", FALSE)
  /\ UNCHANGED <<searchTerm, results, searching, searchTimerRef, autoSave,
                 cartVars, fetchVars>>

\* fetch resolves; the callback goes on to await response.json().
SearchFetchResolves ==
  /\ \E i \in 1..Len(searchRequests) :
       /\ searchRequests[i].stage = "fetch"
       /\ searchRequests' = [searchRequests EXCEPT ![i].stage = "json"]
  /\ sh' = SearchHist("response", FALSE)
  /\ UNCHANGED <<searchTerm, results, searching, searchTimerRef,
                 searchTimers, autoSave, cartVars, fetchVars>>

\* response.json() resolves: setResults(data), then finally.
SearchJsonResolves ==
  /\ \E i \in 1..Len(searchRequests) :
       /\ searchRequests[i].stage = "json"
       /\ results' = SearchData(searchRequests[i].term)
       /\ searchRequests' = Without(searchRequests, i)
  /\ searching' = FALSE
  /\ sh' = SearchHist("data", FALSE)
  /\ UNCHANGED <<searchTerm, searchTimerRef, searchTimers, autoSave,
                 cartVars, fetchVars>>

\* fetch or response.json() rejects: catch, then finally.
SearchRejects ==
  /\ \E i \in 1..Len(searchRequests) :
       searchRequests' = Without(searchRequests, i)
  /\ searching' = FALSE
  /\ sh' = SearchHist("error", TRUE)
  /\ UNCHANGED <<searchTerm, results, searchTimerRef, searchTimers,
                 autoSave, cartVars, fetchVars>>

SearchInit == Init /\ store = Absent

SearchNext ==
  \/ ChangeTerm
  \/ FireSearch
  \/ SearchFetchResolves
  \/ SearchJsonResolves
  \/ SearchRejects

SearchSpec == SearchInit /\ [][SearchNext]_vars

\* ------------------------------------------------------------ DataFetching
\* DataFetching of src/unnamed/part_000.  The parent changes the userId
\* prop and unmounts the component; the requests finish in any order.

UserIds == {1, 2}

\* The parent changes userId at most MaxUserChanges times.
MaxUserChanges == 2

\* The JSON /api/users/u answers with.
UserData(u) == [k |-> "object", user |-> u]

\* err.message of the error thrown for a response that is not ok ("http"),
\* by fetch ("network") or by response.json() ("json").
ErrorMessage(kind) == [k |-> "string", message |-> kind]

\* What the component renders.
Shown(l, e, d) ==
  IF l THEN [view |-> "loading"]
  ELSE IF e # Null THEN [view |-> "error", message |-> e]
  ELSE IF d = Null THEN [view |-> "none"]
  ELSE [view |-> "data", data |-> d]

\* A cleanup that does nothing.
CancelNothing(reqs, id) == reqs

\* The effect's cleanup, of run number id: cancelled = true in that run's
\* closure.
Cancel(reqs, id) ==
  [i \in 1..Len(reqs) |->
     IF reqs[i].id = id THEN [reqs[i] EXCEPT !.cancelled = TRUE]
                        ELSE reqs[i]]

FetchHist(op, req, outcome) ==
  [op |-> op, id |-> req.id, user |-> req.user, outcome |-> outcome,
   changes |-> IF op = "change" THEN fh.changes + 1 ELSE fh.changes]

\* The parent renders the component with another userId: the cleanup of
\* the effect's previous run, then the effect, which calls fetchData.
ChangeUser ==
  /\ fetchMounted
  /\ fh.changes < MaxUserChanges
  /\ \E u \in UserIds :
       /\ u # userId
       /\ userId' = u
       /\ fetchRequests' = Append(Cancel(fetchRequests, effectRun),
                                  FetchData(effectRun + 1, u))
       /\ fh' = FetchHist("change", FetchData(effectRun + 1, u), "none")
  /\ effectRun' = effectRun + 1
  /\ loading' = TRUE
  /\ error' = Null
  /\ UNCHANGED <<fetchedData, fetchMounted, autoSave, cartVars,
                 searchVars>>

\* The component unmounts: the cleanup of the effect's latest run.
UnmountFetching ==
  /\ fetchMounted
  /\ fetchMounted' = FALSE
  /\ fetchRequests' = Cancel(fetchRequests, effectRun)
  /\ fh' = [fh EXCEPT !.op = "unmount"]
  /\ UNCHANGED <<userId, fetchedData, loading, error, effectRun, autoSave,
                 cartVars, searchVars>>

\* fetch resolves with a response that is ok; fetchData goes on to await
\* response.json().
UserFetchResolves ==
  /\ \E i \in 1..Len(fetchRequests) :
       /\ fetchRequests[i].stage = "fetch"
       /\ fetchRequests' = [fetchRequests EXCEPT ![i].stage = "json"]
       /\ fh' = FetchHist("response", fetchRequests[i], "none")
  /\ UNCHANGED <<userId, fetchedData, loading, error, fetchMounted,
                 effectRun, autoSave, cartVars, searchVars>>

\* response.json() resolves: setData, then finally, both unless cancelled.
\* A setter of an unmounted component does nothing.
UserJsonResolves ==
  /\ \E i \in 1..Len(fetchRequests) :
       LET req == fetchRequests[i]
           acts == ~req.cancelled /\ fetchMounted
       IN /\ req.stage = "json"
          /\ fetchedData' = IF acts THEN UserData(req.user)
                                    ELSE fetchedData
          /\ loading' = IF acts THEN FALSE ELSE loading
          /\ fetchRequests' = Without(fetchRequests, i)
          /\ fh' = FetchHist("settle", req, "ok")
  /\ UNCHANGED <<userId, error, fetchMounted, effectRun, autoSave,
                 cartVars, searchVars>>

\* fetch rejects, or resolves with a response that is not ok, or
\* response.json() rejects: catch, then finally, both unless cancelled.
UserRequestFails ==
  /\ \E i \in 1..Len(fetchRequests) :
       \E kind \in {"network", "http", "json"} :
         LET req == fetchRequests[i]
             acts == ~req.cancelled /\ fetchMounted
         IN /\ kind = "json" <=> req.stage = "json"
            /\ error' = IF acts THEN ErrorMessage(kind) ELSE error
            /\ loading' = IF acts THEN FALSE ELSE loading
            /\ fetchRequests' = Without(fetchRequests, i)
            /\ fh' = FetchHist("settle", req, kind)
  /\ UNCHANGED <<userId, fetchedData, fetchMounted, effectRun, autoSave,
                 cartVars, searchVars>>

FetchInit == Init /\ store = Absent

FetchNext ==
  \/ ChangeUser
  \/ UnmountFetching
  \/ UserFetchResolves
  \/ UserJsonResolves
  \/ UserRequestFails

FetchSpec == FetchInit /\ [][FetchNext]_vars

\* ----------------------------------------------------------------- claims

\* The user's last action was an edit that left the component mounted, at a
\* time from which the debounce delay fits before the clock stops; b is the
\* parity of the number of the user's actions, which changes when the user
\* acts again.
EditDone(b) ==
  /\ h.op = "edit"
  /\ ops % 2 = b
  /\ phase = "mounted"
  /\ now + SAVE_DELAY <= Horizon

\* The debounce callback has just called setItem with the current Document.
WroteCurrent == h.op = "fireSave" /\ h.wrote # "none" /\ h.wdoc = form

\* C1 as stated: after any edit, unless the user acts again, the debounce
\* callback eventually writes the current Document, and it runs at most once
\* between two actions of the user.
C1_Original ==
  /\ [](h.dw <= 1)
  /\ \A b \in {0, 1} : EditDone(b) ~> (ops % 2 # b \/ WroteCurrent)

\* C1, amended: after an edit that leaves a non-empty Document, unless the
\* user acts again, the debounce callback eventually writes the current
\* Document (the last one passed to edit), and it runs at most once between
\* two actions of the user; after an edit that leaves the Document empty no
\* write is pending.
C1_Debounce ==
  /\ [](h.dw <= 1)
  /\ [](h.op = "edit" /\ IsEmptyForm(form) => ~SavePending)
  /\ \A b \in {0, 1} :
       (EditDone(b) /\ ~IsEmptyForm(form)) ~> (ops % 2 # b \/ WroteCurrent)

\* A burst of two edits or more has ended in one write of the last Document.
C1_Witness ==
  /\ h.op = "fireSave"
  /\ h.wrote = "ok"
  /\ h.burst >= 2
  /\ h.dw = 1
  /\ h.wdoc = form
  /\ form = MkForm("A", "x")

\* C2 as stated, for the steps of a component that is mounted (what mounting
\* does with a stored empty document is C8): no step that leaves the
\* Document with both fields empty writes an entry to the store or moves
\* the status to saving or saved.
C2_Original ==
  [][(phase = "mounted" /\ phase' = "mounted" /\ form' = EmptyForm)
       => /\ h'.wrote # "ok"
          /\ ~(status' \in {"saving", "saved"} /\ status' # status)]_vars

\* C3: setItem is only ever called by code of a mounted instance, and no
\* debounce timer outlives the instance that set it: once an instance is
\* unmounted, nothing of it writes to the store.
C3_NoWriteAfterTeardown ==
  /\ h.wrote # "none" => h.live
  /\ \A i \in 1..Len(timers) : timers[i].orphan => timers[i].kind # "save"

\* The instance was unmounted while its debounce timer was pending, and
\* the debounce delay has passed since.
C3_Witness ==
  /\ phase = "unmounted"
  /\ h.td.done
  /\ h.td.save
  /\ now >= h.td.at + SAVE_DELAY

\* C4 as stated: once the component is unmounted no timer is pending, and
\* its status does not change.
C4_Original ==
  /\ [](phase = "unmounted" => timers = <<>>)
  /\ [][phase = "unmounted" /\ phase' = "unmounted" => status' = status]_vars

\* The entry holds a record with a document of two strings.
WellFormed(text) ==
  /\ Loads(text)
  /\ Prop(Prop(JSONparse(text).v, "form"), "title").k = "string"
  /\ Prop(Prop(JSONparse(text).v, "form"), "content").k = "string"

StoredForm(text) == Prop(JSONparse(text).v, "form")

StoredTimestamp(text) == Prop(JSONparse(text).v, "timestamp")

\* C5 as stated: mounting on a well-formed entry leaves the stored document,
\* the stored timestamp and the status saved.
C5_Original ==
  (h.op = "mount" /\ WellFormed(store))
    => /\ phase = "mounted"
       /\ form = StoredForm(store)
       /\ lastSaved = StoredTimestamp(store)
       /\ status = "saved"

\* C6: an instance that mounts while the store holds what a successful save
\* of a non-empty document d wrote at time t starts with Document d and
\* LastSavedTimestamp t.
C6_RoundTrip ==
  (h.op = "mount" /\ h.saved.done /\ ~IsEmptyForm(h.saved.doc))
    => /\ phase = "mounted"
       /\ form = h.saved.doc
       /\ lastSaved = h.saved.ts

\* A second instance has read back a document of two non-empty fields,
\* saved by the first after the clock had advanced.
C6_Witness ==
  /\ h.op = "mount"
  /\ h.saved.done
  /\ h.saved.doc = MkForm("A", "x")
  /\ h.saved.ts # ToISOString(0)
  /\ form = MkForm("A", "x")
  /\ lastSaved = h.saved.ts

\* C7 as stated: mounting on an entry that is not well-formed leaves an
\* empty Document, status idle and no timestamp, and the component mounted.
C7_Original ==
  (h.op = "mount" /\ store.k = "text" /\ ~WellFormed(store))
    => /\ phase = "mounted"
       /\ form = EmptyForm
       /\ status = "idle"
       /\ lastSaved = Null

\* C8 as stated: mounting on an entry whose document is empty leaves status
\* idle and no timestamp.
C8_Original ==
  (h.op = "mount" /\ WellFormed(store) /\ IsEmptyForm(StoredForm(store)))
    => /\ form = EmptyForm
       /\ status = "idle"
       /\ lastSaved = Null

\* C9: a step of a mounted instance in which setItem throws, be it the
\* debounce callback or handleManualSave, leaves the status at error and
\* LastSavedTimestamp as it was.
C9_WriteFailure ==
  [][(h'.wrote = "failed" /\ h'.live)
       => (status' = "error" /\ lastSaved' = lastSaved)]_vars

\* The debounce callback has failed to write while an earlier timestamp
\* was held, and the timestamp is still that of the entry in the store.
C9_Witness ==
  /\ h.op = "fireSave"
  /\ h.wrote = "failed"
  /\ status = "error"
  /\ h.saved.done
  /\ lastSaved = h.saved.ts

\* handleManualSave has failed to write while an earlier timestamp was held.
C9_WitnessManual ==
  /\ h.op = "manualSave"
  /\ h.wrote = "failed"
  /\ status = "error"
  /\ h.saved.done
  /\ lastSaved = h.saved.ts

\* C10 as stated: while the component stays mounted, the status leaves idle
\* or error only in an edit, a manual save or a clear.
C10_Original ==
  [][(phase = "mounted" /\ phase' = "mounted"
        /\ status \in {"idle", "error"} /\ status' # status)
       => h'.op \in {"edit", "manualSave", "clear"}]_vars

\* The user's last action was a non-empty edit that found the status idle,
\* at a time from which the debounce delay and the feedback delay fit before
\* the clock stops; b is the parity of the number of the user's actions.
EditFromIdle(b) ==
  /\ h.op = "edit"
  /\ h.e1
  /\ ops % 2 = b
  /\ phase = "mounted"
  /\ now + SAVE_DELAY + FEEDBACK_DELAY <= Horizon

\* C11 as stated: after one non-empty edit from idle, with no further edit,
\* clear or teardown and no failed write, the status only moves from idle to
\* unsaved, from unsaved to saving and from saving to saved (a manual save
\* may start the cycle again from saved), and unless the user acts again
\* the status reaches saved with the edited Document in the store.
C11_Original ==
  /\ [][(h'.e1 /\ phase' = "mounted" /\ status' # status)
          => \/ <<status, status'>> \in { <<"idle", "unsaved">>,
                                         <<"unsaved", "saving">>,
                                         <<"saving", "saved">> }
             \/ h'.op = "manualSave" /\ status' = "saving"]_vars
  /\ \A b \in {0, 1} :
       EditFromIdle(b)
         ~> \/ ops % 2 # b
            \/ ~h.e1
            \/ /\ status = "saved"
               /\ Loads(store)
               /\ StoredForm(store) = form

\* C12: a confirmed clear leaves the Document empty, the status idle and no
\* LastSavedTimestamp, and the component mounted; the entry is gone from the
\* store when removeItem returns, and when removeItem throws the reset is
\* applied all the same and the entry stays as it was.
C12_Clear ==
  [][h'.op = "clear"
       => /\ phase' = "mounted"
          /\ form' = EmptyForm
          /\ status' = "idle"
          /\ lastSaved' = Null
          /\ h'.rm \in {"ok", "failed"}
          /\ h'.rm = "ok" => store' = Absent
          /\ h'.rm = "failed" => store' = store]_vars

\* A clear after a save of a non-empty document, with removeItem throwing:
\* the entry is still in the store and the state is reset.
C12_Witness ==
  /\ h.op = "clear"
  /\ h.rm = "failed"
  /\ h.saved.done
  /\ ~IsEmptyForm(h.saved.doc)
  /\ store # Absent
  /\ form = EmptyForm
  /\ status = "idle"
  /\ lastSaved = Null

\* A clear after a save of a non-empty document, with removeItem returning:
\* the entry is gone and the state is reset.
C12_WitnessRemoved ==
  /\ h.op = "clear"
  /\ h.rm = "ok"
  /\ h.lw = "ok"
  /\ store = Absent
  /\ form = EmptyForm
  /\ status = "idle"
  /\ lastSaved = Null

\* C13 as stated: from a confirmed clear until the next non-empty edit or
\* manual save, no step writes to the store and the status is idle.
C13_Original == (h.cl /\ phase = "mounted") => (h.wrote = "none" /\ status = "idle")

\* C14: handleManualSave calls setItem in the same step with the current
\* Document, and from then until the next edit no debounce timer is pending
\* and the debounce callback does not run: the write of the manual save is
\* the only one the edit before it causes.
C14_ManualSave ==
  /\ h.op = "manualSave" => (h.wrote # "none" /\ h.wdoc = form)
  /\ h.ms.done => /\ \A i \in 1..Len(timers) : timers[i].kind # "save"
                  /\ h.op # "fireSave"
                  /\ h.dw = 0

\* The user edited both fields, saved manually while the debounce timer of
\* the last edit was pending, has not edited since, and the debounce delay
\* has passed: the entry in the store is the one the manual save wrote.
C14_Witness ==
  /\ phase = "mounted"
  /\ h.ms.done
  /\ h.ms.save
  /\ now >= h.ms.at + SAVE_DELAY
  /\ h.lw = "ok"
  /\ form = MkForm("A", "x")
  /\ h.saved.doc = form
  /\ h.saved.ts = ToISOString(h.ms.at)

\* The pending debounce timers, of any instance.
SaveTimers == {i \in 1..Len(timers) : timers[i].kind = "save"}

\* C15: at most one debounce timer is pending; the one that is pending
\* belongs to the mounted instance and is the one saveTimerRef holds, so
\* that the clearTimeout of the next edit or manual save cancels it; none is
\* pending after a manual save.
C15_OnePendingWrite ==
  /\ Cardinality(SaveTimers) <= 1
  /\ \A i \in SaveTimers : /\ phase = "mounted"
                           /\ ~timers[i].orphan
                           /\ timers[i].id = saveTimerRef
  /\ h.op = "manualSave" => SaveTimers = {}

\* An edit has come while the debounce timer of the edit before it was
\* pending, next to a pending feedback timer, and one debounce timer is
\* pending after it.
C15_Witness ==
  /\ h.op = "edit"
  /\ h.burst >= 2
  /\ Cardinality(SaveTimers) = 1
  /\ Len(timers) >= 2

\* C16: every call of setItem, by the debounce callback or by
\* handleManualSave, is given the Document the component holds in that step.
C16_WritesCurrent == h.wrote # "none" => (h.live /\ h.wdoc = form)

\* The debounce callback has written the Document of the second of two
\* edits, which differs from the Document its timer would have captured at
\* the first.
C16_Witness ==
  /\ h.op = "fireSave"
  /\ h.wrote # "none"
  /\ h.burst >= 2
  /\ h.wdoc = form
  /\ form \in {MkForm("", "x"), MkForm("A", "x")}

\* handleManualSave has written the Document of the edit before it.
C16_WitnessManual ==
  /\ h.op = "manualSave"
  /\ h.wrote # "none"
  /\ h.ms.save
  /\ h.wdoc = form
  /\ ~IsEmptyForm(form)

\* C17: once setItem has thrown, and until the user edits again or a new
\* instance mounts, no debounce timer is pending and no step calls setItem
\* except a manual save.
C17_NoRetry ==
  /\ [](h.lw = "failed" => SaveTimers = {})
  /\ [][(h.lw = "failed" /\ h'.wrote # "none") => h'.op = "manualSave"]_vars

\* The debounce callback has failed to write, the feedback delay has passed
\* since, and nothing has written again.
C17_Witness ==
  /\ h.lw = "failed"
  /\ h.dw = 1
  /\ h.op = "advance"
  /\ phase = "mounted"
  /\ status = "error"
  /\ timers = <<>>

\* C18 as stated, for the steps of a mounted instance after its mount: the
\* status changes to unsaved only in a non-empty edit, to saving only from
\* unsaved in the debounce callback or in a manual save, to error only in a
\* step whose setItem threw, to idle only in a clear, and to saved only
\* from saving in the feedback timer's callback.
C18_Original ==
  [][(phase = "mounted" /\ phase' = "mounted" /\ status' # status)
       => \/ /\ status' = "unsaved"
             /\ h'.op = "edit"
             /\ ~IsEmptyForm(form')
          \/ /\ status' = "saving"
             /\ \/ status = "unsaved" /\ h'.op = "fireSave"
                \/ h'.op = "manualSave"
             /\ h'.wrote = "ok"
          \/ /\ status' = "error"
             /\ h'.wrote = "failed"
          \/ /\ status' = "idle"
             /\ h'.op = "clear"
          \/ /\ status' = "saved"
             /\ status = "saving"
             /\ h'.op = "fireStatus"]_vars

\* C19: an edit that leaves the Document empty leaves no debounce timer
\* pending and leaves the status as it was, idle included.
C19_EmptyEdit ==
  [][(h'.op = "edit" /\ IsEmptyForm(form'))
       => /\ phase' = "mounted"
          /\ \A i \in 1..Len(timers') : timers'[i].kind # "save"
          /\ status' = status]_vars

\* An edit has emptied the Document while the debounce timer of the edit
\* before it was pending.
C19_Witness ==
  /\ h.op = "edit"
  /\ h.burst >= 2
  /\ form = EmptyForm
  /\ status = "unsaved"
  /\ SaveTimers = {}

\* C20: LastSavedTimestamp changes only in a mount, which leaves the
\* timestamp of the entry it loaded or none, in a clear, which leaves none,
\* and in a step whose setItem succeeded, which leaves the timestamp it
\* wrote.
C20_TimestampFrame ==
  [][lastSaved' # lastSaved
       => \/ /\ h'.op = "mount"
             /\ lastSaved' = IF Loads(store) THEN StoredTimestamp(store)
                                             ELSE Null
          \/ /\ h'.op = "clear"
             /\ lastSaved' = Null
          \/ /\ h'.wrote = "ok"
             /\ h'.op \in {"fireSave", "manualSave"}
             /\ lastSaved' = StoredTimestamp(store')
             /\ lastSaved' = ToISOString(now)]_vars

\* The debounce callback has written an entry and LastSavedTimestamp is the
\* time of that write, later than the timestamp loaded at the mount.
C20_Witness ==
  /\ h.op = "fireSave"
  /\ h.wrote = "ok"
  /\ now >= SAVE_DELAY
  /\ lastSaved = ToISOString(now)
  /\ lastSaved = StoredTimestamp(store)

\* C21 as stated: whenever the status of the mounted component is saved,
\* the store holds an entry whose document is the current Document.
C21_Original ==
  (phase = "mounted" /\ status = "saved")
    => (Loads(store) /\ StoredForm(store) = form)

\* C22: in the Shopping Cart every item has an integer quantity of at least
\* 1 and no product id appears twice; an item whose typed quantity parses
\* to no positive number is gone from the cart after the step; "-" lowers
\* the quantity of its item by 1 and keeps it at 1 or more; and
\* decrementItem, applied to any cart the program reaches, for any product,
\* leaves no quantity below 1: it removes the item whose quantity is 1 (the
\* "-" button of such an item is disabled, so no click makes that call).
C22_CartInvariant ==
  /\ [](\A i \in 1..Len(cart) : /\ cart[i].quantity \in Nat
                                 /\ cart[i].quantity >= 1
                                 /\ cart[i].id \in ProductIds)
  /\ [](\A i, j \in 1..Len(cart) : cart[i].id = cart[j].id => i = j)
  /\ [][cop'.op = "decrementItem"
          => /\ HasItem(cart', cop'.id)
             /\ Quantity(cart', cop'.id) = Quantity(cart, cop'.id) - 1
             /\ Quantity(cart', cop'.id) >= 1]_vars
  /\ [](\A id \in ProductIds :
          LET c == decrementItem(cart, id)
          IN /\ \A i \in 1..Len(c) : c[i].quantity >= 1
             /\ (HasItem(cart, id) /\ Quantity(cart, id) = 1)
                  => (~HasItem(c, id) /\ Len(c) = Len(cart) - 1))
  /\ [][(cop'.op = "updateQuantity" /\ HasItem(cart', cop'.id))
          => Quantity(cart', cop'.id) >= 1]_vars

\* An item is gone from a cart of several items after a text that is no
\* positive number was typed, and the cart holds an item of quantity 1,
\* which decrementItem would remove.
C22_Witness ==
  /\ cop.op = "updateQuantity"
  /\ ~HasItem(cart, cop.id)
  /\ Len(cart) >= 2
  /\ \E i \in 1..Len(cart) : cart[i].quantity = 1

\* "-" has lowered the quantity of an item to 1, where its button is
\* disabled.
C22_WitnessDecrement ==
  /\ cop.op = "decrementItem"
  /\ Quantity(cart, cop.id) = 1
  /\ Len(cart) >= 2

\* C23: addItem appends the product with quantity 1 when its id is not in
\* the cart and otherwise raises the quantity of its item by 1, leaving
\* the other items, and the order, as they were; after n calls in a row for
\* a product that was not in the cart, its quantity is n.
C23_AddItem ==
  /\ [][cop'.op = "addItem"
          => IF HasItem(cart, cop'.id)
             THEN /\ Len(cart') = Len(cart)
                  /\ \A i \in 1..Len(cart) :
                       /\ cart'[i].id = cart[i].id
                       /\ cart'[i].quantity =
                            cart[i].quantity
                              + (IF cart[i].id = cop'.id THEN 1 ELSE 0)
             ELSE /\ Len(cart') = Len(cart) + 1
                  /\ SubSeq(cart', 1, Len(cart)) = cart
                  /\ cart'[Len(cart')].id = cop'.id
                  /\ cart'[Len(cart')].quantity = 1]_vars
  /\ [](cop.run > 0 => Quantity(cart, cop.id) = cop.run)

\* A product has been added MaxQty times in a row to a cart that held
\* another item, and has quantity MaxQty.
C23_Witness ==
  /\ cop.op = "addItem"
  /\ cop.run = MaxQty
  /\ Len(cart) >= 2
  /\ Quantity(cart, cop.id) = MaxQty

\* C24 as stated: whenever the status of the mounted component is unsaved,
\* a debounce timer of the instance is pending.
C24_Original == (phase = "mounted" /\ status = "unsaved") => SavePending

\* C25: whenever the mounted component holds a LastSavedTimestamp, the
\* store holds an entry with that timestamp (setItem leaves the entry as it
\* was when it throws, and only the component writes the key).
C25_TimestampStored ==
  (phase = "mounted" /\ lastSaved # Null)
    => (Loads(store) /\ StoredTimestamp(store) = lastSaved)

\* A manual save has failed after the clock advanced: the timestamp held is
\* still the one loaded at the mount, and the entry in the store has it.
C25_Witness ==
  /\ phase = "mounted"
  /\ h.op = "manualSave"
  /\ h.wrote = "failed"
  /\ now > 0
  /\ lastSaved = PriorTimestamp
  /\ StoredTimestamp(store) = PriorTimestamp

\* C26 as stated: while the mount is the only thing the user has done, no
\* step has called setItem and the store holds what it held before the
\* mount.
C26_Original == ops = 1 => (h.wrote = "none" /\ store \in InitialStores)

\* The timers other than the debounce timer.
StatusTimers(tm) == SelectSeq(tm, LAMBDA t : t.kind # "save")

\* C27: a step of handleChange calls neither setItem nor removeItem and
\* leaves the store entry, LastSavedTimestamp and the feedback timer's ref
\* as they were; while the component stays mounted it leaves the timers
\* other than the debounce timer as they were.
C27_EditFrame ==
  [][h'.op = "edit"
       => /\ h'.wrote = "none"
          /\ h'.rm = "none"
          /\ store' = store
          /\ lastSaved' = lastSaved
          /\ statusTimerRef' = statusTimerRef
          /\ phase' = "mounted" => StatusTimers(timers') = StatusTimers(timers)
          /\ form' # form]_vars

\* An edit has been made after a save of this session, while the feedback
\* timer of that save was pending: the store still holds the document and
\* the timestamp of that save.
C27_Witness ==
  /\ h.op = "edit"
  /\ phase = "mounted"
  /\ h.saved.done
  /\ StoredForm(store) = h.saved.doc
  /\ StoredForm(store) # form
  /\ lastSaved = h.saved.ts
  /\ StatusTimers(timers) # <<>>
  /\ SavePending

\* No search timer is pending and no search request is in flight.
SearchQuiet == searchTimers = <<>> /\ searchRequests = <<>>

\* C28 as stated: once no timer is pending and no request is in flight, and
\* no request has failed, the results are those returned for the current
\* search term, or empty when the term is empty.
C28_Original ==
  (SearchQuiet /\ ~sh.failed)
    => results = IF searchTerm = "" THEN <<>> ELSE SearchData(searchTerm)

\* C29 as stated: the searching flag is true only while a search timer is
\* pending or a request is in flight.
C29_Original == searching => ~SearchQuiet

\* C30: when a fetchData call finishes, with data or with an error, after
\* userId has changed or the component has unmounted, data, error and
\* loading stay as they were; when the call of the effect's latest run
\* finishes in a mounted component, it is the call for the current userId
\* and the component shows its outcome: the data of that user, or the
\* message of its error.  A response that only moves a call on to
\* response.json() changes nothing.
C30_Cancelled ==
  /\ [][fh'.op = "settle"
          => IF fh'.id # effectRun \/ ~fetchMounted
             THEN /\ fetchedData' = fetchedData
                  /\ error' = error
                  /\ loading' = loading
             ELSE /\ fh'.user = userId
                  /\ Shown(loading', error', fetchedData') =
                       IF fh'.outcome = "ok"
                       THEN [view |-> "data", data |-> UserData(userId)]
                       ELSE [view |-> "error",
                             message |-> ErrorMessage(fh'.outcome)]]_vars
  /\ [][fh'.op = "response"
          => /\ fetchedData' = fetchedData
             /\ error' = error
             /\ loading' = loading]_vars

\* The call for an earlier userId has finished with data while the call
\* for the current userId is in flight, after data of another user had
\* been shown: the component is still loading and holds the older data.
C30_Witness ==
  /\ fh.op = "settle"
  /\ fh.outcome = "ok"
  /\ fh.id < effectRun
  /\ fh.user # userId
  /\ fetchMounted
  /\ loading
  /\ fetchedData # Null
  /\ fetchedData # UserData(fh.user)

\* The call of an unmounted component has finished with an error.
C30_WitnessUnmounted ==
  /\ fh.op = "settle"
  /\ fh.outcome = "network"
  /\ ~fetchMounted
  /\ loading
  /\ error = Null
====
